---- MODULE Spec2Model ----
(***************************************************************************)
(* A model of wp2octopress.py: the export of WordPress posts and pages to  *)
(* Octopress markdown files.                                               *)
(*                                                                         *)
(* Text is modelled as a sequence of one-character strings, so that the    *)
(* character-level functions of the script (replace, the isalnum filter,   *)
(* strip, str of an integer, join) are computed as the script computes     *)
(* them.                                                                   *)
(*                                                                         *)
(* The environment is taken to work: the database answers both queries,   *)
(* the two output directories are different directories, and creating      *)
(* directories and opening files succeeds.  An uncaught exception ends the *)
(* process with exit status 1.                                             *)
(*                                                                         *)
(* Four specifications share the variables:                                *)
(*   Spec      one run of the script, from main to the end of dump_posts   *)
(*   SpecFix   fix_post_content applied to bounded texts                   *)
(*   SpecName  missing_name_check applied to bounded posts                 *)
(*   SpecFile  the path dump_single_post opens, for pairs of bounded posts *)
(***************************************************************************)
EXTENDS Integers, Sequences, FiniteSets, TLC

VARIABLES
    pc,                  \* position of the run / of the pure-function harness
    argc,                \* number of command-line arguments after the program name
    exit_code,           \* process exit status once the run has ended, else -1
    error,               \* the uncaught exception that ended the run, else "none"
    connections,         \* number of database connections opened
    stdout,              \* lines printed on standard output
    stderr,              \* warnings written to the error stream
    dirs,                \* directories created on disk
    files,               \* files on disk: path -> content
    missing_name_count,  \* the module-level fallback counter
    post_categories,     \* mapping built by _get_taxonomy
    post_tags,           \* mapping built by _get_taxonomy
    tax_rows,            \* the rows SQL_GET_TAXONOMY returned
    rows,                \* the rows of SQL_GET_POST iterated so far, in order
    log,                 \* per iterated row: what its processing did
    input,               \* argument(s) of the pure function under check
    output               \* its result(s)

vars == <<pc, argc, exit_code, error, connections, stdout, stderr, dirs, files, missing_name_count,
          post_categories, post_tags, tax_rows, rows, log, input, output>>

runVars == <<argc, exit_code, error, connections, stdout, dirs, files, post_categories, post_tags,
             tax_rows, rows, log>>

-----------------------------------------------------------------------------
(* Bounds *)

MaxLen == 4        \* longest text given to fix_post_content
MaxId == 2         \* post ids of a run are 1..MaxId (so at most MaxId rows)
MaxPrior == 11     \* fallback names handed out before the call SpecName checks
MaxFileId == 11    \* post ids given to refine_file_name are 0..MaxFileId

-----------------------------------------------------------------------------
(* Characters and strings *)

CR == "\r"
LF == "\n"

Digits == <<"0", "1", "2", "3", "4", "5", "6", "7", "8", "9">>

DigitSet == {Digits[i] : i \in 1..10}

Letters == {"a", "b", "c", "d", "e", "g", "i", "m", "n", "s", "t", "u", "x"}

\* str.isalnum of one character
isalnum(ch) == ch \in Letters \cup DigitSet

\* the characters str.strip() removes
IsSpace(ch) == ch \in {" ", "\t", CR, LF}

\* all texts over alphabet cs of length at most n
Texts(cs, n) == UNION {[1..k -> cs] : k \in 0..n}

RECURSIVE replace(_, _, _)
\* str.replace(old, new), old non-empty: non-overlapping, left to right
replace(s, old, new) ==
    IF Len(s) < Len(old) THEN s
    ELSE IF SubSeq(s, 1, Len(old)) = old
         THEN new \o replace(SubSeq(s, Len(old) + 1, Len(s)), old, new)
         ELSE <<s[1]>> \o replace(Tail(s), old, new)

RECURSIVE lstrip(_)
lstrip(s) == IF s # <<>> /\ IsSpace(s[1]) THEN lstrip(Tail(s)) ELSE s

RECURSIVE rstrip(_)
rstrip(s) ==
    IF s # <<>> /\ IsSpace(s[Len(s)]) THEN rstrip(SubSeq(s, 1, Len(s) - 1)) ELSE s

RECURSIVE NatStr(_)
NatStr(n) == IF n < 10 THEN <<Digits[n + 1]>>
             ELSE NatStr(n \div 10) \o <<Digits[(n % 10) + 1]>>

\* str(n) of an integer
str(n) == IF n < 0 THEN <<"-">> \o NatStr(0 - n) ELSE NatStr(n)

RECURSIVE join(_, _)
\* sep.join(items)
join(sep, items) ==
    IF items = <<>> THEN <<>>
    ELSE IF Len(items) = 1 THEN items[1]
    ELSE items[1] \o sep \o join(sep, Tail(items))

\* s contains sub as a substring
Contains(s, sub) ==
    \E i \in 1..(Len(s) - Len(sub) + 1) : SubSeq(s, i, i + Len(sub) - 1) = sub

\* number of positions of s where sub starts
Occurrences(s, sub) ==
    Cardinality({i \in 1..(Len(s) - Len(sub) + 1) : SubSeq(s, i, i + Len(sub) - 1) = sub})

-----------------------------------------------------------------------------
(* fix_post_content *)

\* a fix_post_content that only deletes the carriage return in front of a newline once
fix_post_content_first(post_content) ==
    IF Contains(post_content, <<CR, LF>>)
    THEN LET i == CHOOSE j \in 1..(Len(post_content) - 1) :
                    /\ SubSeq(post_content, j, j + 1) = <<CR, LF>>
                    /\ \A k \in 1..(j - 1) : SubSeq(post_content, k, k + 1) # <<CR, LF>>
         IN SubSeq(post_content, 1, i - 1) \o SubSeq(post_content, i + 1, Len(post_content))
    ELSE post_content

fix_post_content(post_content) == replace(post_content, <<CR, LF>>, <<LF>>)

-----------------------------------------------------------------------------
(* Module constants *)

USAGE == "USAGE: {0} db host username password posts_dir pages_dir"

WP_COMMENTS == ("closed" :> "false") @@ ("open" :> "true")

WP_PUBLISH == ("draft" :> "false") @@ ("auto-draft" :> "false") @@ ("publish" :> "true")

MissingNamePrefix == <<"m", "i", "s", "s", "i", "n", "g", "-", "n", "a", "m", "e", "-">>

-----------------------------------------------------------------------------
(* Dates: str(datetime) is "YYYY-MM-DD HH:MM:SS" *)

zfill2(s) == IF Len(s) < 2 THEN <<"0">> \o s ELSE s

DateStr(d) ==
    str(d.year) \o <<"-">> \o zfill2(str(d.month)) \o <<"-">> \o zfill2(str(d.day))
        \o <<" ">> \o d.time

\* s[:-3]
DropLast3(s) == SubSeq(s, 1, Len(s) - 3)

-----------------------------------------------------------------------------
(* missing_name_check *)

strip(s) == rstrip(lstrip(s))

\* "".join([ch for ch in title.replace(" ", "-") if ch.isalnum() or ch == "-"])
sanitize(title) ==
    SelectSeq(replace(title, <<" ">>, <<"-">>), LAMBDA ch : isalnum(ch) \/ ch = "-")

\* the test of line 49
bad_name(post_name) == strip(post_name) = <<>> \/ Contains(post_name, <<"%">>)

\* a fallback that forgets the sanitised title being empty
fallback_name_unsafe(post_title, count) ==
    [name |-> sanitize(post_title), count |-> count, generated |-> FALSE]

\* a fallback that never advances the counter
fallback_name_stuck(post_title, count) ==
    LET name == sanitize(post_title)
    IN IF strip(name) = <<>>
       THEN [name |-> MissingNamePrefix \o str(count), count |-> count, generated |-> TRUE]
       ELSE [name |-> name, count |-> count, generated |-> FALSE]

\* lines 50-59: the name derived from the title, or missing-name-N
fallback_name(post_title, count) ==
    LET name == sanitize(post_title)
    IN IF strip(name) = <<>>
       THEN [name |-> MissingNamePrefix \o str(count), count |-> count + 1,
             generated |-> TRUE]
       ELSE [name |-> name, count |-> count, generated |-> FALSE]

\* a missing_name_check that returns the slug trimmed
missing_name_check_trimmed(post, count) ==
    IF bad_name(post.post_name)
    THEN LET f == fallback_name(post.post_title, count)
         IN [name |-> f.name, count |-> f.count, generated |-> f.generated,
             warnings |-> <<[title |-> post.post_title, id |-> post.id, name |-> f.name]>>]
    ELSE [name |-> strip(post.post_name), count |-> count, generated |-> FALSE,
          warnings |-> <<>>]

\* missing_name_check(post) with missing_name_count = count:
\* the name returned, the counter afterwards, and what was written to stderr
missing_name_check(post, count) ==
    IF bad_name(post.post_name)
    THEN LET f == fallback_name(post.post_title, count)
         IN [name |-> f.name, count |-> f.count, generated |-> f.generated,
             warnings |-> <<[title |-> post.post_title, id |-> post.id, name |-> f.name]>>]
    ELSE [name |-> post.post_name, count |-> count, generated |-> FALSE,
          warnings |-> <<>>]

-----------------------------------------------------------------------------
(* Paths *)

os_path_join(a, b) == a \o <<"/">> \o b

IndexMd == <<"i", "n", "d", "e", "x", ".", "m", "d">>

DotMd == <<".", "m", "d">>

\* the file name of line 130, which line 131 replaces
dated_file_name(post, post_name) ==
    str(post.post_date.year) \o <<"-">> \o zfill2(str(post.post_date.month)) \o <<"-">>
        \o zfill2(str(post.post_date.day)) \o <<"-">> \o post_name \o DotMd

\* a refine_file_name without the hyphen after the id
refine_file_name_no_sep(post) == str(post.id) \o sanitize(post.post_title) \o DotMd

refine_file_name(post) == str(post.id) \o <<"-">> \o sanitize(post.post_title) \o DotMd

\* a dump_single_post that keeps the file name of line 130
post_file_name_dated(post, post_name) == dated_file_name(post, post_name)

\* lines 130-131: the file name dump_single_post opens
post_file_name(post, post_name) == refine_file_name(post)

-----------------------------------------------------------------------------
(* Mappings (dict, defaultdict) and the file system *)

\* d with key k set to v
Put(d, k, v) == [x \in (DOMAIN d) \cup {k} |-> IF x = k THEN v ELSE d[x]]

EmptyDict == <<>>

\* d.get(k) or []
get_or_empty(d, k) == IF k \in DOMAIN d THEN d[k] ELSE <<>>

\* defaultdict(list): d[k].insert(0, v)
dd_prepend(d, k, v) == Put(d, k, <<v>> \o get_or_empty(d, k))

\* defaultdict(list): d[k].append(v)
dd_append(d, k, v) == Put(d, k, Append(get_or_empty(d, k), v))

\* what open(path, mode="w") leaves on disk before anything is written
EmptyFile == <<>>

\* an open that empties the output tree first
open_w_clean(fs, path) == Put(EmptyDict, path, EmptyFile)

\* codecs.open(path, mode="w"): creates the file, or truncates the one there
open_w(fs, path) == Put(fs, path, EmptyFile)

\* output.write(text); output.close() on a file just opened
write_close(fs, path, text) == Put(fs, path, <<text>>)

PostsDir == <<"p", "o", "s", "t", "s">>

PagesDir == <<"p", "a", "g", "e", "s">>

-----------------------------------------------------------------------------
(* _get_taxonomy *)

RECURSIVE taxonomy_fold(_, _, _)
\* the loop of lines 190-195 over the remaining rows
taxonomy_fold(result, cats, tags) ==
    IF result = <<>> THEN [post_categories |-> cats, post_tags |-> tags]
    ELSE LET row == Head(result)
         IN IF row.type = "category"
            THEN taxonomy_fold(Tail(result), dd_append(cats, row.id, row.name), tags)
            ELSE taxonomy_fold(Tail(result), cats, dd_append(tags, row.id, row.name))

get_taxonomy(result) == taxonomy_fold(result, EmptyDict, EmptyDict)

-----------------------------------------------------------------------------
(* The writers *)

\* lines 83-103: the text written to index.md
page_text(page) ==
    [layout |-> "page",
     title |-> page.post_title,
     date |-> DropLast3(DateStr(page.post_date)),
     comments |-> WP_COMMENTS[page.comment_status],
     sharing |-> "true",
     footer |-> "true",
     body |-> fix_post_content(page.post_content) \o <<LF>>]

\* the tags / categories value of lines 142-143
bracket_list(names) == <<"[">> \o join(<<",", " ">>, names) \o <<"]">>

\* lines 134-149: the text written to the post's file
post_text(post, post_name, cats, tags) ==
    [wp_post_id |-> str(post.id),
     title |-> post.post_title,
     slug |-> post_name,
     date |-> DateStr(post.post_date),
     lastmod |-> DateStr(post.post_modified),
     author |-> post.author,
     tags |-> bracket_list(get_or_empty(tags, post.id)),
     categories |-> bracket_list(get_or_empty(cats, post.id)),
     comments |-> WP_COMMENTS[post.comment_status],
     published |-> WP_PUBLISH[post.post_status],
     body |-> fix_post_content(post.post_content)]

\* a page writer that looks the publish status up as the post writer does
page_lookup_fails_as_post(page) ==
    \/ page.comment_status \notin DOMAIN WP_COMMENTS
    \/ page.post_status \notin DOMAIN WP_PUBLISH

\* a page whose header lookup raises KeyError
page_lookup_fails(page) == page.comment_status \notin DOMAIN WP_COMMENTS

\* a post whose header lookups raise KeyError
post_lookup_fails(post) ==
    \/ post.comment_status \notin DOMAIN WP_COMMENTS
    \/ post.post_status \notin DOMAIN WP_PUBLISH

-----------------------------------------------------------------------------
(* Inputs of a run *)

\* sys.argv holds the program name and argc further arguments
ArgcValues == 0..7

ADate == [year |-> 2020, month |-> 1, day |-> 2,
          time |-> <<"0", "3", ":", "0", "4", ":", "0", "5">>]

BDate == [year |-> 2021, month |-> 11, day |-> 12,
          time |-> <<"0", "3", ":", "0", "4", ":", "0", "5">>]

\* title and slug of a row: a good slug, a missing slug with a usable title,
\* a missing slug with nothing usable in the title
RowNames ==
    { [post_title |-> <<"b">>, post_name |-> <<"a">>],
      [post_title |-> <<"a">>, post_name |-> <<>>],
      [post_title |-> <<>>, post_name |-> <<>>] }

CommentStatuses == {"open", "closed", "registered_only"}

\* SQL_GET_POST leaves auto-draft out
PostStatuses == {"publish", "draft", "private"}

\* the rows SQL_GET_POST can return for the given ids
RowsOf(ids) ==
    { [id |-> i, post_title |-> n.post_title, post_type |-> t, post_status |-> s,
       post_name |-> n.post_name, post_date |-> ADate, post_modified |-> BDate,
       post_content |-> <<"x", CR, LF>>, comment_status |-> c, author |-> <<"x">>] :
      i \in ids, n \in RowNames, t \in {"post", "page"}, s \in PostStatuses,
      c \in CommentStatuses }

TaxRow(id, name, type) == [id |-> id, name |-> <<name>>, type |-> type]

\* results of SQL_GET_TAXONOMY, each ordered by id, type
TaxResults ==
    { <<TaxRow(1, "c", "category"), TaxRow(1, "u", "post_tag"), TaxRow(1, "t", "post_tag")>>,
      <<TaxRow(1, "d", "category"), TaxRow(1, "c", "category"), TaxRow(2, "t", "post_tag")>> }

-----------------------------------------------------------------------------
(* The run: main, dump_posts *)

Init ==
    /\ pc = "start"
    /\ argc = 0
    /\ exit_code = -1
    /\ error = "none"
    /\ connections = 0
    /\ stdout = <<>>
    /\ stderr = <<>>
    /\ dirs = {}
    /\ files = EmptyDict
    /\ missing_name_count = 0
    /\ post_categories = EmptyDict
    /\ post_tags = EmptyDict
    /\ tax_rows = <<>>
    /\ rows = <<>>
    /\ log = <<>>
    /\ input = <<>>
    /\ output = <<>>

\* line 260: len(sys.argv) < 6
usage_needed(n) == n + 1 < 6

\* main, with dump_posts up to the start of its loop (lines 239-247)
Main(n) ==
    /\ pc = "start"
    /\ argc' = n
    /\ \/ /\ usage_needed(n)
          /\ stdout' = <<USAGE>>
          /\ exit_code' = 0
          /\ pc' = "exited"
          /\ UNCHANGED <<error, connections, dirs, post_categories, post_tags, tax_rows>>
       \/ /\ ~usage_needed(n)
          /\ n # 6        \* dump_posts(*sys.argv[1:]) takes exactly six arguments
          /\ error' = "TypeError"
          /\ exit_code' = 1
          /\ pc' = "aborted"
          /\ UNCHANGED <<stdout, connections, dirs, post_categories, post_tags, tax_rows>>
       \/ /\ ~usage_needed(n)
          /\ n = 6
          /\ dirs' = {PostsDir, PagesDir}
          /\ \E result \in TaxResults :
                /\ tax_rows' = result
                /\ post_categories' = get_taxonomy(result).post_categories
                /\ post_tags' = get_taxonomy(result).post_tags
          /\ connections' = 2
          /\ pc' = "rows"
          /\ UNCHANGED <<stdout, error, exit_code>>
    /\ UNCHANGED <<stderr, files, missing_name_count, rows, log, input, output>>

SeenIds == {rows[i].id : i \in 1..Len(rows)}

\* dump_single_post on the next row of the cursor
DumpSinglePost(post) ==
    /\ pc = "rows"
    /\ post.post_type = "post"
    /\ LET r == missing_name_check(post, missing_name_count)
           path == os_path_join(PostsDir, post_file_name(post, r.name))
           fails == post_lookup_fails(post)
           opened == open_w(files, path)
       IN /\ missing_name_count' = r.count
          /\ stderr' = stderr \o r.warnings
          /\ files' = IF fails THEN opened
                      ELSE write_close(opened, path,
                               post_text(post, r.name, post_categories, post_tags))
          /\ log' = Append(log, [id |-> post.id, path |-> path, name |-> r.name,
                                 generated |-> r.generated, written |-> ~fails])
          /\ IF fails
             THEN error' = "KeyError" /\ exit_code' = 1 /\ pc' = "aborted"
             ELSE UNCHANGED <<error, exit_code, pc>>
    /\ rows' = Append(rows, post)
    /\ UNCHANGED <<argc, connections, stdout, dirs, post_categories, post_tags, tax_rows,
                   input, output>>

\* dump_single_page on the next row of the cursor
DumpSinglePage(page) ==
    /\ pc = "rows"
    /\ page.post_type = "page"
    /\ LET r == missing_name_check(page, missing_name_count)
           subpath == os_path_join(PagesDir, r.name)
           path == os_path_join(subpath, IndexMd)
           fails == page_lookup_fails(page)
           opened == open_w(files, path)
       IN /\ missing_name_count' = r.count
          /\ stderr' = stderr \o r.warnings
          /\ dirs' = dirs \cup {subpath}
          /\ files' = IF fails THEN opened ELSE write_close(opened, path, page_text(page))
          /\ log' = Append(log, [id |-> page.id, path |-> path, name |-> r.name,
                                 generated |-> r.generated, written |-> ~fails])
          /\ IF fails
             THEN error' = "KeyError" /\ exit_code' = 1 /\ pc' = "aborted"
             ELSE UNCHANGED <<error, exit_code, pc>>
    /\ rows' = Append(rows, page)
    /\ UNCHANGED <<argc, connections, stdout, post_categories, post_tags, tax_rows,
                   input, output>>

\* the cursor is exhausted: dump_posts and main return
DumpPostsEnd ==
    /\ pc = "rows"
    /\ pc' = "exited"
    /\ exit_code' = 0
    /\ UNCHANGED <<argc, error, connections, stdout, stderr, dirs, files,
                   missing_name_count, post_categories, post_tags, tax_rows, rows, log,
                   input, output>>

Next ==
    \/ \E n \in ArgcValues : Main(n)
    \/ \E post \in RowsOf((1..MaxId) \ SeenIds) : DumpSinglePost(post)
    \/ \E page \in RowsOf((1..MaxId) \ SeenIds) : DumpSinglePage(page)
    \/ DumpPostsEnd

Spec == Init /\ [][Next]_vars

-----------------------------------------------------------------------------
(* fix_post_content on its own *)

FixTexts == Texts({CR, LF, "x"}, MaxLen)

InitFix ==
    /\ pc = "fix"
    /\ input \in FixTexts
    /\ output = <<>>
    /\ argc = 0
    /\ exit_code = -1
    /\ error = "none"
    /\ connections = 0
    /\ stdout = <<>>
    /\ stderr = <<>>
    /\ dirs = {}
    /\ files = EmptyDict
    /\ missing_name_count = 0
    /\ post_categories = EmptyDict
    /\ post_tags = EmptyDict
    /\ tax_rows = <<>>
    /\ rows = <<>>
    /\ log = <<>>

\* fix_post_content(input)
FixPostContent ==
    /\ pc = "fix"
    /\ output' = <<fix_post_content(input)>>
    /\ pc' = "fixed"
    /\ UNCHANGED <<runVars, stderr, missing_name_count, input>>

\* fix_post_content applied to its own result
FixPostContentAgain ==
    /\ pc = "fixed"
    /\ output' = Append(output, fix_post_content(output[1]))
    /\ pc' = "refixed"
    /\ UNCHANGED <<runVars, stderr, missing_name_count, input>>

NextFix == FixPostContent \/ FixPostContentAgain

SpecFix == InitFix /\ [][NextFix]_vars

-----------------------------------------------------------------------------
(* missing_name_check on its own *)

NameTitles == Texts({"a", "!", " ", "-"}, 2)

NameSlugs == Texts({"a", " ", "%"}, 2)

APost(id, title, slug, date) ==
    [id |-> id, post_title |-> title, post_type |-> "post", post_status |-> "publish",
     post_name |-> slug, post_date |-> date, post_modified |-> BDate,
     post_content |-> <<"x">>, comment_status |-> "open", author |-> <<"x">>]

\* the warning of an earlier record that had neither a slug nor a usable title
PriorWarning(i) ==
    [title |-> <<>>, id |-> i, name |-> MissingNamePrefix \o str(i - 1)]

\* the state after k earlier records were given generated names
InitName ==
    /\ pc = "name"
    /\ \E k \in 0..MaxPrior :
          /\ missing_name_count = k
          /\ stderr = [i \in 1..k |-> PriorWarning(i)]
    /\ input \in {APost(100, t, n, ADate) : t \in NameTitles, n \in NameSlugs}
    /\ output = <<>>
    /\ argc = 0
    /\ exit_code = -1
    /\ error = "none"
    /\ connections = 0
    /\ stdout = <<>>
    /\ dirs = {}
    /\ files = EmptyDict
    /\ post_categories = EmptyDict
    /\ post_tags = EmptyDict
    /\ tax_rows = <<>>
    /\ rows = <<>>
    /\ log = <<>>

\* missing_name_check(input)
MissingNameCheck ==
    /\ pc = "name"
    /\ LET r == missing_name_check(input, missing_name_count)
       IN /\ output' = [name |-> r.name, generated |-> r.generated,
                        count_before |-> missing_name_count,
                        warned |-> r.warnings # <<>>]
          /\ missing_name_count' = r.count
          /\ stderr' = stderr \o r.warnings
    /\ pc' = "named"
    /\ UNCHANGED <<runVars, input>>

NextName == MissingNameCheck

SpecName == InitName /\ [][NextName]_vars

-----------------------------------------------------------------------------
(* The path dump_single_post opens, on its own *)

FileTitles == Texts({"1", "-", " "}, 2)

InitFile ==
    /\ pc = "file"
    /\ input \in
          { <<APost(i, t, n, d), APost(j, u, <<"s">>, ADate)>> :
              i \in 0..MaxFileId, t \in FileTitles, n \in {<<>>, <<"s">>},
              d \in {ADate, BDate}, j \in 0..MaxFileId, u \in FileTitles }
    /\ output = <<>>
    /\ argc = 0
    /\ exit_code = -1
    /\ error = "none"
    /\ connections = 0
    /\ stdout = <<>>
    /\ stderr = <<>>
    /\ dirs = {}
    /\ files = EmptyDict
    /\ missing_name_count = 0
    /\ post_categories = EmptyDict
    /\ post_tags = EmptyDict
    /\ tax_rows = <<>>
    /\ rows = <<>>
    /\ log = <<>>

\* lines 128-132 for the two posts of input, one after the other
PostPaths ==
    /\ pc = "file"
    /\ LET r1 == missing_name_check(input[1], missing_name_count)
           r2 == missing_name_check(input[2], r1.count)
       IN /\ output' = <<os_path_join(PostsDir, post_file_name(input[1], r1.name)),
                         os_path_join(PostsDir, post_file_name(input[2], r2.name))>>
          /\ missing_name_count' = r2.count
          /\ stderr' = stderr \o r1.warnings \o r2.warnings
    /\ pc' = "filed"
    /\ UNCHANGED <<runVars, input>>

NextFile == PostPaths

SpecFile == InitFile /\ [][NextFile]_vars

-----------------------------------------------------------------------------
(* Properties of a run *)

\* dump_posts ran to its end
Completed == pc = "exited" /\ connections > 0

\* the run died on a status lookup while processing its last iterated row
AbortedOnLookup == pc = "aborted" /\ error = "KeyError"

Paths == {log[i].path : i \in 1..Len(log)}

IsPage(i) == rows[i].post_type = "page"

IsPost(i) == rows[i].post_type = "post"

KnownComment(r) == r.comment_status \in {"open", "closed"}

KnownPublish(r) == r.post_status \in {"draft", "auto-draft", "publish"}

\* C1 as stated: after a completed run there is one output file per iterated
\* row, N rows leaving N files whatever the ids, titles and slugs.
C1_OneFilePerRecord == Completed => Cardinality(DOMAIN files) = Len(rows)

\* C1 amended: in a completed run every row is visited once (one log entry
\* per row, ids pairwise distinct) and has opened and written exactly one
\* path; the files on disk are exactly those paths; two rows share a path
\* only when both are pages that resolve to the same name, so N rows leave N
\* files exactly when no two pages resolve to the same name.
C1_OneWritePerRecord ==
    Completed =>
        /\ Len(log) = Len(rows)
        /\ \A i \in 1..Len(rows) : log[i].id = rows[i].id /\ log[i].written
        /\ \A i, j \in 1..Len(rows) : i # j => rows[i].id # rows[j].id
        /\ DOMAIN files = Paths
        /\ \A p \in Paths : files[p] # EmptyFile
        /\ \A i, j \in 1..Len(rows) :
              (i # j /\ log[i].path = log[j].path)
                  => (IsPage(i) /\ IsPage(j) /\ log[i].name = log[j].name)
        /\ (Cardinality(DOMAIN files) = Len(rows))
              <=> (\A i, j \in 1..Len(rows) :
                     (i # j /\ IsPage(i) /\ IsPage(j)) => log[i].name # log[j].name)

\* a completed run of MaxId rows in which two rows wrote the same path
C1_Witness ==
    /\ Completed
    /\ Len(rows) = MaxId
    /\ \E i, j \in 1..Len(rows) : i # j /\ log[i].path = log[j].path

\* a completed run of MaxId rows that left MaxId files, a post among them
C1_WitnessDistinct ==
    /\ Completed
    /\ Len(rows) = MaxId
    /\ Cardinality(DOMAIN files) = MaxId
    /\ \E i \in 1..Len(rows) : IsPost(i)

\* C2 as stated: a processed record, post or page, with a comment status
\* outside {open, closed} or a publish status outside {draft, auto-draft,
\* publish} aborts the run with a lookup error at that record.
C2_AnyRecordAborts ==
    \A i \in 1..Len(rows) :
        (~KnownComment(rows[i]) \/ ~KnownPublish(rows[i]))
            => (AbortedOnLookup /\ i = Len(rows))

\* C2 amended: a post with an unknown comment or publish status, and a page
\* with an unknown comment status, abort the run with a lookup error at that
\* record (exit status 1, the record's file left opened and empty, no later
\* row iterated); a page's publish status is never looked up, so a page with
\* a known comment status is written whatever its publish status; and the
\* run aborts on a lookup in no other case.
C2_LookupAborts ==
    /\ \A i \in 1..Len(rows) :
          LET r == rows[i]
              unknown == \/ ~KnownComment(r)
                         \/ r.post_type = "post" /\ ~KnownPublish(r)
          IN /\ unknown => /\ AbortedOnLookup
                            /\ exit_code = 1
                            /\ i = Len(rows)
                            /\ ~log[i].written
                            /\ files[log[i].path] = EmptyFile
             /\ ~unknown => log[i].written
    /\ AbortedOnLookup =>
          /\ rows # <<>>
          /\ ~log[Len(log)].written

\* a run that wrote a page with an unknown publish status and then aborted
\* on a later record
C2_Witness ==
    /\ AbortedOnLookup
    /\ \E i \in 1..Len(rows) :
          /\ i < Len(rows)
          /\ IsPage(i)
          /\ ~KnownPublish(rows[i])
          /\ files[log[i].path] # EmptyFile
    /\ IsPost(Len(rows))
    /\ KnownComment(rows[Len(rows)])

\* C3 as stated: started with fewer than the six required arguments, main
\* prints the usage line and exits with status 0, having created no
\* directory, opened no connection and written no file.
C3_UsageBelowSix ==
    (pc # "start" /\ argc < 6) =>
        /\ stdout = <<USAGE>>
        /\ exit_code = 0
        /\ pc = "exited"
        /\ dirs = {}
        /\ connections = 0
        /\ DOMAIN files = {}

Generated == {i \in 1..Len(log) : log[i].generated}

\* C6: the fallback counter starts at 0 and always equals the number of calls
\* so far that generated a missing-name-N name (so it never decreases and
\* grows by one on exactly those calls); the k-th such call returns
\* missing-name-(k-1), and two records given generated names get different
\* names.
C6_CounterCountsFallbacks ==
    /\ (rows = <<>> => missing_name_count = 0)
    /\ missing_name_count = Cardinality(Generated)
    /\ \A i \in Generated :
          log[i].name = MissingNamePrefix
                            \o str(Cardinality({j \in Generated : j < i}))
    /\ \A i, j \in Generated : i # j => log[i].name # log[j].name
    /\ \A i \in 1..Len(log) :
          log[i].generated <=>
              /\ \/ \A k \in 1..Len(rows[i].post_name) :
                       rows[i].post_name[k] \in {" ", "\t", CR, LF}
                 \/ \E k \in 1..Len(rows[i].post_name) : rows[i].post_name[k] = "%"
              /\ \A k \in 1..Len(rows[i].post_title) :
                    rows[i].post_title[k] \notin Letters \cup DigitSet \cup {"-", " "}

\* a post and a page, in this order or the other, both given generated names
C6_Witness ==
    /\ Cardinality(Generated) >= 2
    /\ \E i, j \in Generated : IsPost(i) /\ IsPage(j)

\* C7 as stated: the step that aborts the run removes, truncates or alters no
\* file that was on disk before it.
C7_AbortKeepsAllFiles ==
    [][(pc = "rows" /\ pc' = "aborted")
          => \A p \in DOMAIN files : p \in DOMAIN files' /\ files'[p] = files[p]]_vars

\* C7 amended: the step that aborts the run removes no file and leaves every
\* file at a path other than the failing record's own output path with its
\* content; the file at the failing record's own path is left empty, which
\* truncates an earlier page's file when both pages resolve to the same name.
C7_AbortKeepsOtherFiles ==
    [][(pc = "rows" /\ pc' = "aborted")
          => LET own == log'[Len(log')].path
             IN /\ \A p \in DOMAIN files :
                      /\ p \in DOMAIN files'
                      /\ p # own => files'[p] = files[p]
                /\ own \in DOMAIN files'
                /\ files'[own] = EmptyFile]_vars

\* an aborted run with an earlier record's file still on disk with content
C7_Witness ==
    /\ AbortedOnLookup
    /\ \E j \in 1..(Len(log) - 1) :
          /\ log[j].path # log[Len(log)].path
          /\ files[log[j].path] # EmptyFile

\* the names the taxonomy query returned for a post id and a type, in order
NamesReturned(id, type) ==
    LET hits == SelectSeq(tax_rows, LAMBDA row : row.id = id /\ row.type = type)
    IN [k \in 1..Len(hits) |-> hits[k].name]

RECURSIVE CommaSpaced(_, _)
\* the first n names, each but the first preceded by ", "
CommaSpaced(names, n) ==
    IF n = 0 THEN <<>>
    ELSE IF n = 1 THEN names[1]
    ELSE CommaSpaced(names, n - 1) \o <<",", " ">> \o names[n]

Listed(names) == <<"[">> \o CommaSpaced(names, Len(names)) \o <<"]">>

\* C8: every written post's tags and categories lines list the names the
\* taxonomy query returned for its id, in that order, joined by ", "; an id
\* the query returned nothing for renders [] and is not added to the mapping.
C8_TaxonomyLines ==
    /\ \A i \in 1..Len(rows) :
          (IsPost(i) /\ log[i].written) =>
              LET text == files[log[i].path][1]
              IN /\ text.tags = Listed(NamesReturned(rows[i].id, "post_tag"))
                 /\ text.categories = Listed(NamesReturned(rows[i].id, "category"))
                 /\ (rows[i].id \notin DOMAIN post_tags => text.tags = <<"[", "]">>)
                 /\ (rows[i].id \notin DOMAIN post_categories
                        => text.categories = <<"[", "]">>)
    /\ DOMAIN post_tags = {tax_rows[k].id : k \in {x \in 1..Len(tax_rows) :
                                                    tax_rows[x].type = "post_tag"}}
    /\ DOMAIN post_categories = {tax_rows[k].id : k \in {x \in 1..Len(tax_rows) :
                                                    tax_rows[x].type = "category"}}

\* one written post with two names in a line, another whose id has no tags
C8_Witness ==
    \E i, j \in 1..Len(rows) :
        /\ IsPost(i) /\ log[i].written
        /\ IsPost(j) /\ log[j].written
        /\ Len(NamesReturned(rows[i].id, "post_tag")) >= 2
        /\ rows[j].id \notin DOMAIN post_tags
        /\ files[log[j].path][1].tags = <<"[", "]">>

-----------------------------------------------------------------------------
(* Properties of missing_name_check *)

AlnumOrHyphen == Letters \cup DigitSet \cup {"-"}

HasPercent(s) == \E k \in 1..Len(s) : s[k] = "%"

OnlyWhitespace(s) == \A k \in 1..Len(s) : s[k] \in {" ", "\t", CR, LF}

NoSideEffect ==
    /\ missing_name_count = output.count_before
    /\ ~output.warned
    /\ Len(stderr) = output.count_before

\* C4 as stated: a slug that is non-empty and holds no % is returned as the
\* name exactly, the counter is left alone and nothing is written to stderr.
C4_NonEmptySlugKept ==
    (pc = "named" /\ input.post_name # <<>> /\ ~HasPercent(input.post_name))
        => (output.name = input.post_name /\ NoSideEffect)

\* C4 amended: a slug that holds a character other than whitespace and no %
\* is returned as the name exactly (untrimmed), the counter is left alone and
\* nothing is written to stderr; a slug of whitespace only is treated as
\* missing: the name comes from the title or the counter, with a warning.
C4_NonBlankSlugKept ==
    /\ (pc = "named" /\ ~OnlyWhitespace(input.post_name) /\ ~HasPercent(input.post_name))
          => (output.name = input.post_name /\ NoSideEffect)
    /\ (pc = "named" /\ OnlyWhitespace(input.post_name))
          => (output.warned /\ output.name # input.post_name)

\* a slug with a leading space came back untrimmed, after earlier fallbacks
C4_Witness ==
    /\ pc = "named"
    /\ input.post_name = <<" ", "a">>
    /\ output.name = <<" ", "a">>
    /\ output.count_before > 0

\* C5: for a slug that is empty or holds %, whatever the title, the name is
\* non-empty and made of alphanumeric characters and hyphens only.
C5_FallbackNameSafe ==
    (pc = "named" /\ (input.post_name = <<>> \/ HasPercent(input.post_name)))
        => /\ output.name # <<>>
           /\ \A k \in 1..Len(output.name) : output.name[k] \in AlnumOrHyphen

\* a slug holding % with a title of punctuation only, after ten fallbacks
C5_Witness ==
    /\ pc = "named"
    /\ HasPercent(input.post_name)
    /\ input.post_title = <<"!", "!">>
    /\ output.generated
    /\ output.count_before >= 10

-----------------------------------------------------------------------------
(* Properties of the post file name *)

SameIdAndTitle == input[1].id = input[2].id /\ input[1].post_title = input[2].post_title

\* the text of path between the directory prefix and the .md suffix
Stem(path) == SubSeq(path, Len(PostsDir) + 2, Len(path) - Len(DotMd))

WellFormed(path, post) ==
    LET head == PostsDir \o <<"/">> \o str(post.id) \o <<"-">>
        kept == {k \in 1..Len(post.post_title) :
                    post.post_title[k] \in AlnumOrHyphen \cup {" "}}
    IN /\ SubSeq(path, 1, Len(head)) = head
       /\ SubSeq(path, Len(path) - 2, Len(path)) = <<".", "m", "d">>
       /\ Len(path) = Len(head) + Cardinality(kept) + 3
       /\ \A k \in 1..Len(Stem(path)) : Stem(path)[k] \in AlnumOrHyphen

\* C9: the post path is <id>-<sanitized title>.md in the posts directory and
\* is decided by id and title alone (two posts that agree on both get the
\* same path whatever their slugs and dates); two posts with different ids
\* get different paths whatever their titles.
C9_PostPathsDistinct ==
    pc = "filed" =>
        /\ WellFormed(output[1], input[1])
        /\ WellFormed(output[2], input[2])
        /\ SameIdAndTitle => output[1] = output[2]
        /\ input[1].id # input[2].id => output[1] # output[2]

\* ids 1 and 11 with titles "1" and "": the digits run together the same way
\* and the paths still differ; the first post has no slug and another date
C9_Witness ==
    /\ pc = "filed"
    /\ input[1].id = 1 /\ input[1].post_title = <<"1">>
    /\ input[2].id = 11 /\ input[2].post_title = <<>>
    /\ input[1].post_name = <<>> /\ input[1].post_date = BDate
    /\ output[1] # output[2]

-----------------------------------------------------------------------------
(* Properties of fix_post_content *)

CRLF == <<CR, LF>>

WithoutCR(s) == SelectSeq(s, LAMBDA ch : ch # CR)

\* C10 as stated: the result holds no CR-LF pair, a second application
\* returns the first result, and an input without CR-LF comes back unchanged.
C10_NoPairLeft ==
    /\ pc \in {"fixed", "refixed"} =>
          /\ ~Contains(output[1], CRLF)
          /\ ~Contains(input, CRLF) => output[1] = input
    /\ pc = "refixed" => output[2] = output[1]

\* C10 amended: each CR-LF pair of the input, taken left to right, is
\* replaced by LF and nothing else changes (only CRs go, one per pair), so an
\* input without CR-LF comes back unchanged; the result still holds a CR-LF
\* pair exactly when the input holds CR CR LF, and a second application
\* returns the first result whenever the input holds no CR CR LF.
C10_PairsReplacedOnce ==
    /\ pc \in {"fixed", "refixed"} =>
          /\ ~Contains(input, CRLF) => output[1] = input
          /\ Len(output[1]) = Len(input) - Occurrences(input, CRLF)
          /\ WithoutCR(output[1]) = WithoutCR(input)
          /\ Contains(output[1], CRLF) <=> Contains(input, <<CR, CR, LF>>)
    /\ pc = "refixed" =>
          /\ ~Contains(input, <<CR, CR, LF>>) => output[2] = output[1]
          /\ Contains(input, <<CR, CR, LF>>) => output[2] # output[1]

\* two pairs replaced, and the second application changed nothing
C10_Witness ==
    /\ pc = "refixed"
    /\ input = <<CR, LF, CR, LF>>
    /\ output[1] = <<LF, LF>>
    /\ output[2] = output[1]

====
